---- MODULE Spec2Model ----
(***************************************************************************)
(* A model of the ghost TFHE library (torus, TLWE, TGSW, gate layer,       *)
(* encoder, multi-bit operations).                                         *)
(*                                                                         *)
(* Number representation.  The source keeps a torus value as an f64 in     *)
(* [0,1).  Here a torus value x is the integer x * 2^WorkBits, an exact    *)
(* dyadic fixed point number; Torus::new (value - floor(value)) is         *)
(* reduction modulo TorusQ.  WorkBits stands for the 32 fractional bits    *)
(* that TgswSample::decompose keeps (value * 2^32 truncated), scaled down  *)
(* so that every torus value can be enumerated.  Floating point rounding   *)
(* below that resolution is not represented.                               *)
(*                                                                         *)
(* Randomness.  The uniform torus sampler and the Gaussian sampler are     *)
(* nondeterministic choices: masks are drawn from MaskVecs, the Gaussian   *)
(* error from GaussianNoise(stddev), where stddev is counted in torus      *)
(* units (1 / TorusQ).                                                     *)
(*                                                                         *)
(* A Rust panic is the value returned by PanicAt(site); every operator     *)
(* that receives a panic returns it unchanged (unwinding).                 *)
(***************************************************************************)
EXTENDS Integers, Sequences, FiniteSets, TLC

VARIABLES sk, ck, call, ret

vars == <<sk, ck, call, ret>>

(***************************************************************************)
(* Bounds of the model.                                                    *)
(***************************************************************************)
WorkBits == 6
MaxN == 2
MaxNoise == 1
MaxScalar == 2

TorusQ == 2 ^ WorkBits

TorusValues == 0 .. (TorusQ - 1)

(***************************************************************************)
(* Panics.                                                                 *)
(***************************************************************************)
PanicAt(site) == [panic |-> site]

IsPanic(x) == DOMAIN x = {"panic"}

\* let v = x; F(v): x is evaluated once, before F is applied to its value.
Bind(x, F(_)) == CHOOSE r \in {F(v) : v \in {x}} : TRUE

Min(x, y) == IF x < y THEN x ELSE y

Abs(x) == IF x < 0 THEN -x ELSE x

(***************************************************************************)
(* torus.rs                                                                *)
(***************************************************************************)
\* value.fract(): the fraction keeps the sign of value.
TorusNewFract(value) ==
    IF value >= 0 THEN value % TorusQ ELSE 0 - ((0 - value) % TorusQ)

\* value - value.floor().
TorusNew(value) == value % TorusQ

TorusAdd(x, y) == TorusNew(x + y)

TorusSub(x, y) == TorusNew(x - y)

TorusMulScalarNoWrap(x, scalar) == TorusNew(x * Abs(scalar))

TorusMulScalar(x, scalar) == TorusNew(x * scalar)

\* Distance of two torus values along the circle.
TorusDist(x, y) == Min(TorusSub(x, y), TorusSub(y, x))

\* The torus value num / den for den a power of two dividing TorusQ.
Frac(num, den) == TorusNew(num * (TorusQ \div den))

(***************************************************************************)
(* noise.rs: a sample of N(0, stddev^2), bounded by stddev torus units.    *)
(***************************************************************************)
GaussianNoise(stddev) == (0 - Abs(stddev)) .. Abs(stddev)

(***************************************************************************)
(* tlwe.rs                                                                 *)
(***************************************************************************)
TlweParamsSet == [n : 1 .. MaxN, stddev : 1 .. MaxNoise]

NoKey == [nokey |-> TRUE]

HasKey == "coeffs" \in DOMAIN sk

\* The values the uniform torus sampler returns in this model.
MaskValues == {1, Frac(1, 2) + 3}

MaskVecs(n) == [1 .. n -> MaskValues]

BinaryKeys(params) ==
    {[coeffs |-> c, params |-> params] : c \in [1 .. params.n -> {0, 1}]}

TernaryKeys(params) ==
    {[coeffs |-> c, params |-> params] : c \in [1 .. params.n -> {-1, 0, 1}]}

\* The sum of a[i] * coeffs[i] for lo < i <= hi; the terms of the loop are
\* grouped in halves, which keeps the evaluation shallow for n = 630.
RECURSIVE PartialSum(_, _, _, _)
PartialSum(a, coeffs, lo, hi) ==
    IF hi = lo THEN 0
    ELSE IF hi = lo + 1 THEN a[hi] * coeffs[hi]
    ELSE LET mid == (lo + hi) \div 2
         IN  PartialSum(a, coeffs, lo, mid) + PartialSum(a, coeffs, mid, hi)

InnerProduct(a, coeffs, n) == PartialSum(a, coeffs, 0, n)

TlweEncrypt(message, key, a, error) ==
    [a |-> a,
     b |-> TorusNew(InnerProduct(a, key.coeffs, key.params.n) + message + error),
     params |-> key.params]

TlweDecryptPhasePlus(ct, key) ==
    TorusNew(ct.b + InnerProduct(ct.a, key.coeffs, key.params.n))

\* The source indexes a[i] and coeffs[i] for i < key.params.n; a shorter vector
\* is an out-of-domain application here, which TLC reports as an error.
TlweDecryptPhase(ct, key) ==
    TorusNew(ct.b - InnerProduct(ct.a, key.coeffs, key.params.n))

InOpenInterval(phase, lo, hi) == phase > lo /\ phase < hi

TlweDecryptBinaryClosed(ct, key) ==
    LET phase == TlweDecryptPhase(ct, key)
    IN  phase >= Frac(1, 4) /\ phase <= Frac(3, 4)

TlweDecryptBinary(ct, key) ==
    LET phase == TlweDecryptPhase(ct, key)
    IN  InOpenInterval(phase, Frac(1, 4), Frac(3, 4))

\* zip of two coefficient vectors: as long as the shorter one.
ZipWith(Op(_, _), x, y) == [i \in 1 .. Min(Len(x), Len(y)) |-> Op(x[i], y[i])]

TlweAdd(x, y) ==
    IF IsPanic(x) THEN x
    ELSE IF IsPanic(y) THEN y
    ELSE IF x.params.n # y.params.n THEN PanicAt("TlweSample::add assert_eq")
    ELSE [a |-> ZipWith(TorusAdd, x.a, y.a),
          b |-> TorusAdd(x.b, y.b),
          params |-> x.params]

TlweSub(x, y) ==
    IF IsPanic(x) THEN x
    ELSE IF IsPanic(y) THEN y
    ELSE IF x.params.n # y.params.n THEN PanicAt("TlweSample::sub assert_eq")
    ELSE [a |-> ZipWith(TorusSub, x.a, y.a),
          b |-> TorusSub(x.b, y.b),
          params |-> x.params]

TlweScalarMulMaskOnly(x, scalar) ==
    IF IsPanic(x) THEN x
    ELSE [a |-> [i \in 1 .. Len(x.a) |-> TorusMulScalar(x.a[i], scalar)],
          b |-> x.b,
          params |-> x.params]

TlweScalarMul(x, scalar) ==
    IF IsPanic(x) THEN x
    ELSE [a |-> [i \in 1 .. Len(x.a) |-> TorusMulScalar(x.a[i], scalar)],
          b |-> TorusMulScalar(x.b, scalar),
          params |-> x.params]

TlweTrivial(message, params) ==
    [a |-> [i \in 1 .. params.n |-> TorusNew(0)],
     b |-> message,
     params |-> params]

(***************************************************************************)
(* The library is a set of pure functions: a behaviour is a sequence of    *)
(* calls.  call holds the operation in progress with its inputs, ret its   *)
(* result; Return hands the result back and leaves the caller idle.        *)
(***************************************************************************)
Idle == call.op = "none"

NoCall == [op |-> "none"]

NoValue == [none |-> TRUE]

Return ==
    /\ ~Idle
    /\ call' = NoCall
    /\ ret' = NoValue
    /\ UNCHANGED <<sk, ck>>

(***************************************************************************)
(* Operations of the TLWE layer.                                           *)
(***************************************************************************)
GenerateBinary(params) ==
    /\ Idle
    /\ sk' \in BinaryKeys(params)
    /\ call' = [op |-> "generate_binary"]
    /\ ret' = NoValue
    /\ UNCHANGED ck

GenerateTernary(params) ==
    /\ Idle
    /\ sk' \in TernaryKeys(params)
    /\ call' = [op |-> "generate_ternary"]
    /\ ret' = NoValue
    /\ UNCHANGED ck

Encrypt(message, a, error) ==
    /\ Idle
    /\ HasKey
    /\ call' = [op |-> "encrypt", message |-> message, error |-> error]
    /\ ret' = TlweEncrypt(message, sk, a, error)
    /\ UNCHANGED <<sk, ck>>

\* Messages of the ciphertexts that the homomorphic operations combine.
OperandMessages == {Frac(1, 8), Frac(5, 8) + 1}

Scalars == (0 - MaxScalar) .. (MaxScalar + 1)

\* A second mask vector, drawn after a: the other value in every coordinate
\* but the first.
OtherMask(a) ==
    [i \in 1 .. Len(a) |->
        IF i = 1 THEN a[i] ELSE CHOOSE v \in MaskValues : v # a[i]]

\* x * ct1 + y * ct2, built with scalar_mul and add.
LinearCombination(m1, a1, e1, m2, a2, e2, x, y) ==
    /\ Idle
    /\ HasKey
    /\ LET ct1 == TlweEncrypt(m1, sk, a1, e1)
           ct2 == TlweEncrypt(m2, sk, a2, e2)
       IN  /\ call' = [op |-> "lincomb", ct1 |-> ct1, ct2 |-> ct2,
                       m1 |-> m1, e1 |-> e1, m2 |-> m2, e2 |-> e2,
                       x |-> x, y |-> y]
           /\ ret' = TlweAdd(TlweScalarMul(ct1, x), TlweScalarMul(ct2, y))
    /\ UNCHANGED <<sk, ck>>

Init ==
    /\ sk = NoKey
    /\ ck = NoKey
    /\ call = NoCall
    /\ ret = NoValue

NextKeygen ==
    /\ Idle
    /\ \E params \in TlweParamsSet :
          GenerateBinary(params) \/ GenerateTernary(params)

NextEncrypt ==
    /\ Idle
    /\ HasKey
    /\ \E message \in TorusValues, a \in MaskVecs(sk.params.n),
          error \in GaussianNoise(sk.params.stddev) :
            Encrypt(message, a, error)

NextLinear ==
    /\ Idle
    /\ HasKey
    /\ \E m1 \in {Frac(1, 8)}, m2 \in OperandMessages,
          a1 \in MaskVecs(sk.params.n),
          e1, e2 \in GaussianNoise(sk.params.stddev),
          x \in Scalars, y \in {-1, 0, 1} :
            LinearCombination(m1, a1, e1, m2, OtherMask(a1), e2, x, y)

Next == NextKeygen \/ NextEncrypt \/ NextLinear \/ Return

Spec == Init /\ [][Next]_vars

(***************************************************************************)
(* C5: the phase of encrypt(mu, sk) under sk is mu + e on the torus, for   *)
(* binary and ternary keys, and decrypt_binary is true exactly when        *)
(* mu + e lies strictly between 1/4 and 3/4.                               *)
(***************************************************************************)
C5_PhaseIsMessagePlusError ==
    call.op = "encrypt" =>
        LET p == TorusNew(call.message + call.error)
        IN  /\ TlweDecryptPhase(ret, sk) = p
            /\ TlweDecryptBinary(ret, sk) <=> (4 * p > TorusQ /\ 4 * p < 3 * TorusQ)

C5_Witness ==
    /\ call.op = "encrypt"
    /\ \E i \in 1 .. Len(sk.coeffs) : sk.coeffs[i] = -1
    /\ call.message = Frac(1, 2)
    /\ call.error # 0
    /\ TlweDecryptBinary(ret, sk) = TRUE

(***************************************************************************)
(* C6: TLWE linearity.  The phase of x * ct1 + y * ct2 is                  *)
(* x * phase(ct1) + y * phase(ct2) on the torus, which is                  *)
(* x * m1 + y * m2 plus the noise x * e1 + y * e2.                         *)
(***************************************************************************)
C6_Linearity ==
    call.op = "lincomb" =>
        /\ ~IsPanic(ret)
        /\ TlweDecryptPhase(ret, sk) =
             TorusNew(call.x * TlweDecryptPhase(call.ct1, sk)
                      + call.y * TlweDecryptPhase(call.ct2, sk))
        /\ TlweDecryptPhase(ret, sk) =
             TorusNew(call.x * call.m1 + call.y * call.m2
                      + call.x * call.e1 + call.y * call.e2)

C6_Witness ==
    /\ call.op = "lincomb"
    /\ call.x = 3
    /\ call.y = -1
    /\ call.e1 # 0
    /\ \E i \in 1 .. Len(sk.coeffs) : sk.coeffs[i] # 0
    /\ ret.a # call.ct1.a

(***************************************************************************)
(* tgsw.rs                                                                 *)
(***************************************************************************)
MaxL == 2
MaxBgBit == 2

\* The gadget entries Bg^-(j+1), j < l, are torus values of the model when
\* l * bg_bit <= WorkBits.
GadgetShapes ==
    {g \in [l : 1 .. MaxL, bg_bit : 1 .. MaxBgBit] : g.l * g.bg_bit <= WorkBits}

TgswParamsFor(tlwe_params) ==
    {[l |-> g.l, bg_bit |-> g.bg_bit, tlwe_params |-> tlwe_params] :
        g \in GadgetShapes}

Bg(params) == 2 ^ params.bg_bit

\* h_value of level j (0-based): 1 / bg^(j+1).
HValue(j, params) == TorusQ \div (Bg(params) ^ (j + 1))

\* The randomness of one TGSW encryption: row (i, j) draws the mask
\* rnd.mask shifted by its position and the error rnd.err.
RowMask(rnd, i, j, l) ==
    [idx \in 1 .. Len(rnd.mask) |-> TorusNew(rnd.mask[idx] + 5 * (i * l + j))]

\* samples[i + 1][j + 1] is the source's samples[i][j]; k = 1.
TgswEncrypt(message, key, params, rnd) ==
    [samples |->
        [i1 \in 1 .. 2 |->
            [j1 \in 1 .. params.l |->
                LET h_value == HValue(j1 - 1, params)
                    msg_value == IF i1 = 1
                                 THEN (0 - key.coeffs[1]) * message * h_value
                                 ELSE message * h_value
                IN  TlweEncrypt(TorusNew(msg_value), key,
                                RowMask(rnd, i1 - 1, j1 - 1, params.l), rnd.err)]],
     k |-> 1,
     l |-> params.l,
     params |-> params]

TgswTrivial(message, params) ==
    [samples |->
        [i1 \in 1 .. 2 |->
            [j1 \in 1 .. params.l |->
                LET h_value == HValue(j1 - 1, params)
                    msg_value == IF i1 = 2 THEN message * h_value ELSE 0
                IN  TlweTrivial(TorusNew(msg_value), params.tlwe_params)]],
     k |-> 1,
     l |-> params.l,
     params |-> params]

\* The digits without the recentring by half_bg.
RECURSIVE DecomposeDigitsUnsigned(_, _, _)
DecomposeDigitsUnsigned(v, bg, l) ==
    IF l = 0 THEN << >>
    ELSE <<v % bg>> \o DecomposeDigitsUnsigned(v \div bg, bg, l - 1)

RECURSIVE DecomposeDigits(_, _, _)
DecomposeDigits(v, bg, l) ==
    IF l = 0 THEN << >>
    ELSE <<(v % bg) - (bg \div 2)>> \o DecomposeDigits(v \div bg, bg, l - 1)

RECURSIVE DecomposeDigitsMsbFirst(_, _, _)
DecomposeDigitsMsbFirst(v, bg, l) ==
    IF l = 0 THEN << >>
    ELSE DecomposeDigitsMsbFirst(v \div bg, bg, l - 1) \o <<(v % bg) - (bg \div 2)>>

\* value.value() * 2^32 truncated to an integer is the torus value itself at
\* the resolution of the model.
TgswDecomposeMsbFirst(value, params) ==
    DecomposeDigitsMsbFirst(value, Bg(params), params.l)

TgswDecompose(value, params) == DecomposeDigits(value, Bg(params), params.l)

\* Sum over the levels j <= l of row[j].a[idx] * digits[j] (idx > 0) or of
\* row[j].b * digits[j] (idx = 0), accumulated on the torus.
RECURSIVE RowSum(_, _, _, _)
RowSum(row, digits, idx, l) ==
    IF l = 0 THEN TorusNew(0)
    ELSE TorusAdd(RowSum(row, digits, idx, l - 1),
                  TorusMulScalar(IF idx = 0 THEN row[l].b ELSE row[l].a[idx],
                                 digits[l]))

TgswExternalProduct(self, tlwe) ==
    LET n == self.params.tlwe_params.n
    IN  IF IsPanic(tlwe) THEN tlwe
        ELSE IF Len(tlwe.a) < n THEN PanicAt("index out of bounds")
        ELSE IF self.l > 0 /\ n = 0 THEN PanicAt("index out of bounds")
        ELSE IF \E i1 \in 1 .. 2, j1 \in 1 .. self.l :
                    Len(self.samples[i1][j1].a) < n
             THEN PanicAt("index out of bounds")
        ELSE Bind([i \in 1 .. n |-> TgswDecompose(tlwe.a[i], self.params)],
                  LAMBDA decomposed_a :
             Bind(TgswDecompose(tlwe.b, self.params), LAMBDA decomposed_b :
             Bind(IF n = 0 THEN << >> ELSE decomposed_a[1], LAMBDA first :
                 [a |-> [idx \in 1 .. n |->
                            TorusAdd(RowSum(self.samples[1], first, idx, self.l),
                                     RowSum(self.samples[2], decomposed_b, idx, self.l))],
                  b |-> TorusAdd(RowSum(self.samples[1], first, 0, self.l),
                                 RowSum(self.samples[2], decomposed_b, 0, self.l)),
                  params |-> self.params.tlwe_params])))

TgswCmux(self, c0, c1) ==
    Bind(TlweSub(c1, c0), LAMBDA diff :
    Bind(TgswExternalProduct(self, diff), LAMBDA product :
        TlweAdd(product, c0)))

(***************************************************************************)
(* lwe.rs.  A u64 or i64 value is written as the integer of small          *)
(* magnitude congruent to it modulo 2^64: a negative v stands for the u64  *)
(* 2^64 + v, so the casts `as u64` and `as i64` leave it unchanged.        *)
(***************************************************************************)
WordBits == 64

\* 2^k mod q.
RECURSIVE Pow2Mod(_, _)
Pow2Mod(k, q) == IF k = 0 THEN 1 % q ELSE (2 * Pow2Mod(k - 1, q)) % q

\* v % q on u64.
U64Mod(v, q) == IF v >= 0 THEN v % q ELSE (Pow2Mod(WordBits, q) + v) % q

\* x % q on i64: the remainder has the sign of x.
I64Rem(x, q) == IF x >= 0 THEN x % q ELSE 0 - ((0 - x) % q)

\* The loop inner_product += a[i] * coeffs[i]; inner_product %= q.
RECURSIVE LweInnerProduct(_, _, _, _)
LweInnerProduct(a, coeffs, q, n) ==
    IF n = 0 THEN 0
    ELSE I64Rem(LweInnerProduct(a, coeffs, q, n - 1) + a[n] * coeffs[n], q)

LweEncrypt(message, key, a, error) ==
    [a |-> a,
     b |-> I64Rem(LweInnerProduct(a, key.coeffs, key.params.q, key.params.n)
                  + message + error, key.params.q),
     params |-> key.params]

LweDecryptNoFixup(ct, key) ==
    I64Rem(ct.b - LweInnerProduct(ct.a, key.coeffs, ct.params.q, key.params.n),
           ct.params.q)

LweDecrypt(ct, key) ==
    LET message ==
            I64Rem(ct.b - LweInnerProduct(ct.a, key.coeffs, ct.params.q, key.params.n),
                   ct.params.q)
    IN  IF message < 0 THEN message + ct.params.q ELSE message

\* The sums wrap around 2^64 where they overflow (a release build).
LweAdd(x, y) ==
    IF x.params.n # y.params.n \/ x.params.q # y.params.q
    THEN PanicAt("LweCiphertext::add assert_eq")
    ELSE [a |-> [i \in 1 .. Min(Len(x.a), Len(y.a)) |->
                    U64Mod(x.a[i] + y.a[i], x.params.q)],
          b |-> U64Mod(x.b + y.b, x.params.q),
          params |-> x.params]

\* Some sum u + v on u64 exceeds 2^64 - 1.
LweAddOverflows(x, y) ==
    LET Overflows(u, v) ==
            \/ u < 0 /\ v < 0
            \/ u < 0 /\ v >= 0 /\ u + v >= 0
            \/ v < 0 /\ u >= 0 /\ u + v >= 0
    IN  /\ x.params.n = y.params.n
        /\ x.params.q = y.params.q
        /\ \/ \E i \in 1 .. Min(Len(x.a), Len(y.a)) : Overflows(x.a[i], y.a[i])
           \/ Overflows(x.b, y.b)

\* The products wrap around 2^64 where they overflow (a release build).
LweScalarMul(x, scalar) ==
    [a |-> [i \in 1 .. Len(x.a) |-> U64Mod(x.a[i] * scalar, x.params.q)],
     b |-> U64Mod(x.b * scalar, x.params.q),
     params |-> x.params]

\* Some product u * scalar on u64 exceeds 2^64 - 1.
LweScalarMulOverflows(x, scalar) ==
    /\ scalar >= 2
    /\ \/ \E i \in 1 .. Len(x.a) : x.a[i] < 0
       \/ x.b < 0

\* An overflowing u64 operation panics in a build with overflow checks and
\* wraps in a build without them.
OverflowOutcomes(overflows, site, wrapped) ==
    IF overflows THEN {PanicAt(site), wrapped} ELSE {wrapped}

(***************************************************************************)
(* Operations of the TGSW layer and the two-operand calls.                 *)
(***************************************************************************)
Decompose(value, params) ==
    /\ call' = [op |-> "decompose", value |-> value, params |-> params]
    /\ ret' = [digits |-> TgswDecompose(value, params)]
    /\ UNCHANGED <<sk, ck>>

\* selector = TgswSample::encrypt(s, sk, params); c0, c1 encrypted under sk;
\* the call is selector.cmux(c0, c1).
Cmux(s, params, rnd, m0, e0, m1, e1) ==
    LET selector == TgswEncrypt(s, sk, params, rnd)
        c0 == TlweEncrypt(m0, sk, OtherMask(rnd.mask), e0)
        c1 == TlweEncrypt(m1, sk, rnd.mask, e1)
    IN  /\ call' = [op |-> "cmux", s |-> s, selector |-> selector,
                    c0 |-> c0, c1 |-> c1, err |-> rnd.err]
        /\ ret' = TgswCmux(selector, c0, c1)
        /\ UNCHANGED <<sk, ck>>

\* Dimensions of the operands of the two-operand calls.
OperandDims == 1 .. (MaxN + 1)

UnitParams(n) == [n |-> n, stddev |-> 1]

TlweAddCall(n1, n2) ==
    LET x == TlweTrivial(Frac(1, 8), UnitParams(n1))
        y == TlweTrivial(Frac(1, 4), UnitParams(n2))
    IN  /\ call' = [op |-> "tlwe_add", x |-> x, y |-> y]
        /\ ret' = TlweAdd(x, y)
        /\ UNCHANGED <<sk, ck>>

TlweSubCall(n1, n2) ==
    LET x == TlweTrivial(Frac(1, 8), UnitParams(n1))
        y == TlweTrivial(Frac(1, 4), UnitParams(n2))
    IN  /\ call' = [op |-> "tlwe_sub", x |-> x, y |-> y]
        /\ ret' = TlweSub(x, y)
        /\ UNCHANGED <<sk, ck>>

LweModuli == {TorusQ, TorusQ + 1}

LweSample(n, q, v) ==
    [a |-> [i \in 1 .. n |-> (v + i) % q], b |-> v % q,
     params |-> [n |-> n, q |-> q, stddev |-> 1]]

LweAddCall(n1, q1, n2, q2) ==
    LET x == LweSample(n1, q1, 3)
        y == LweSample(n2, q2, TorusQ - 2)
    IN  /\ call' = [op |-> "lwe_add", x |-> x, y |-> y]
        /\ ret' = LweAdd(x, y)
        /\ UNCHANGED <<sk, ck>>

ExternalProductCall(s, shape, nsel, n, m) ==
    LET self == TgswTrivial(s, [l |-> shape.l, bg_bit |-> shape.bg_bit,
                                tlwe_params |-> UnitParams(nsel)])
        tlwe == TlweTrivial(m, UnitParams(n))
    IN  /\ call' = [op |-> "external_product", self |-> self, tlwe |-> tlwe]
        /\ ret' = TgswExternalProduct(self, tlwe)
        /\ UNCHANGED <<sk, ck>>

CmuxCall(s, shape, nsel, n0, n1) ==
    LET self == TgswTrivial(s, [l |-> shape.l, bg_bit |-> shape.bg_bit,
                                tlwe_params |-> UnitParams(nsel)])
        c0 == TlweTrivial(Frac(1, 8), UnitParams(n0))
        c1 == TlweTrivial(Frac(5, 8), UnitParams(n1))
    IN  /\ call' = [op |-> "cmux_call", self |-> self, c0 |-> c0, c1 |-> c1]
        /\ ret' = TgswCmux(self, c0, c1)
        /\ UNCHANGED <<sk, ck>>

NextBinaryKeygen ==
    /\ Idle
    /\ \E params \in TlweParamsSet : GenerateBinary(params)

NextDecompose ==
    /\ Idle
    /\ \E value \in TorusValues, params \in TgswParamsFor(UnitParams(1)) :
          Decompose(value, params)

NextCmux ==
    /\ Idle
    /\ HasKey
    /\ \E s \in {0, 1}, params \in TgswParamsFor(sk.params),
          mask \in MaskVecs(sk.params.n),
          err, e0 \in GaussianNoise(sk.params.stddev),
          m1 \in {Frac(5, 8), Frac(3, 4) + 1} :
            Cmux(s, params, [mask |-> mask, err |-> err], Frac(1, 8), e0, m1, 0 - e0)

NextTlweAddSub ==
    /\ Idle
    /\ \E n1, n2 \in OperandDims : TlweAddCall(n1, n2) \/ TlweSubCall(n1, n2)

NextLweAdd ==
    /\ Idle
    /\ \E n1, n2 \in OperandDims, q1, q2 \in LweModuli : LweAddCall(n1, q1, n2, q2)

NextExternalProduct ==
    /\ Idle
    /\ \E s \in {0, 1}, shape \in GadgetShapes, nsel, n \in OperandDims,
          m \in {Frac(1, 8), Frac(5, 8) + 1} :
            ExternalProductCall(s, shape, nsel, n, m)

NextCmuxCall ==
    /\ Idle
    /\ \E s \in {0, 1}, shape \in GadgetShapes, nsel, n0, n1 \in OperandDims :
          CmuxCall(s, shape, nsel, n0, n1)

NextTgsw ==
    \/ NextBinaryKeygen
    \/ NextDecompose
    \/ NextCmux
    \/ NextTlweAddSub
    \/ NextLweAdd
    \/ NextExternalProduct
    \/ NextCmuxCall
    \/ Return

SpecTgsw == Init /\ [][NextTgsw]_vars

(***************************************************************************)
(* tfhe.rs                                                                 *)
(***************************************************************************)
LutLen == 1024

\* Parameter sets whose TGSW layer is built over the TLWE layer of the key.
TfheParamsSet ==
    {[tlwe_params |-> tp,
      tgsw_params |-> [l |-> g.l, bg_bit |-> g.bg_bit, tlwe_params |-> tp],
      n |-> tp.n, N |-> LutLen, k |-> 1] :
        tp \in TlweParamsSet, g \in GadgetShapes}

TfheSecretKeys(params) ==
    {[tlwe_key |-> key, params |-> params] : key \in BinaryKeys(params.tlwe_params)}

\* The randomness of the i-th TGSW encryption of the bootstrapping key.
BkRandomness(rnd, i) ==
    [mask |-> [idx \in 1 .. Len(rnd.mask) |-> TorusNew(rnd.mask[idx] + 11 * i)],
     err |-> rnd.err]

BootstrappingKeyGenerate(key, params, rnd) ==
    [bk |-> [i \in 1 .. key.params.n |->
                TgswEncrypt(key.coeffs[i], key, params, BkRandomness(rnd, i))],
     n |-> key.params.n,
     params |-> params]

TfheCloudKeyGenerate(tsk, rnd) ==
    [bootstrapping_key |->
        BootstrappingKeyGenerate(tsk.tlwe_key, tsk.params.tgsw_params, rnd),
     key_switching_key |-> "None"]

\* The loop acc = bk.bk[i].cmux(&acc, &acc), i < n.
RECURSIVE BlindRotate(_, _, _)
BlindRotate(acc, bk, n) ==
    IF n = 0 THEN acc
    ELSE Bind(BlindRotate(acc, bk, n - 1),
              LAMBDA prev : TgswCmux(bk.bk[n], prev, prev))

\* lut is a function on 0 .. N - 1.
ProgrammableBootstrapRotated(input, lut, bk) ==
    IF IsPanic(input) THEN input
    ELSE BlindRotate(TlweTrivial(lut[((input.b * 2 * LutLen) \div TorusQ) % LutLen],
                                 input.params),
                     bk, bk.n)

ProgrammableBootstrap(input, lut, bk) ==
    IF IsPanic(input) THEN input
    ELSE BlindRotate(TlweTrivial(lut[0], input.params), bk, bk.n)

AddToB(sample, offset) ==
    IF IsPanic(sample) THEN sample
    ELSE [sample EXCEPT !.b = TorusAdd(sample.b, offset)]

NandLut == [i \in 0 .. (LutLen - 1) |-> IF i < 512 THEN Frac(5, 8) ELSE Frac(1, 8)]

XorLut ==
    [i \in 0 .. (LutLen - 1) |->
        IF i >= 256 /\ i < 768 THEN Frac(5, 8) ELSE Frac(1, 8)]

NotLut == [i \in 0 .. (LutLen - 1) |-> IF i < 512 THEN Frac(5, 8) ELSE Frac(1, 8)]

\* The sample nand passes to programmable_bootstrap: (0, 5/8) - a - b.
NandPreCombine(a, b) == AddToB(TlweSub(TlweScalarMul(a, -1), b), Frac(5, 8))

\* The sample xor passes to programmable_bootstrap: 2 * (a - b).
XorPreCombine(a, b) == TlweScalarMul(TlweSub(a, b), 2)

GateNand(a, b, cloud) ==
    Bind(NandPreCombine(a, b), LAMBDA result :
        ProgrammableBootstrap(result, NandLut, cloud.bootstrapping_key))

GateNot(a, cloud) ==
    Bind(AddToB(TlweScalarMul(a, -1), Frac(1, 2)), LAMBDA result :
        ProgrammableBootstrap(result, NotLut, cloud.bootstrapping_key))

GateAnd(a, b, cloud) ==
    Bind(GateNand(a, b, cloud), LAMBDA nand_result : GateNot(nand_result, cloud))

GateOr(a, b, cloud) ==
    Bind(GateNot(a, cloud), LAMBDA not_a :
    Bind(GateNot(b, cloud), LAMBDA not_b :
    Bind(GateAnd(not_a, not_b, cloud), LAMBDA and_result :
        GateNot(and_result, cloud))))

GateXor(a, b, cloud) ==
    Bind(XorPreCombine(a, b), LAMBDA result :
        ProgrammableBootstrap(result, XorLut, cloud.bootstrapping_key))

GateMux(s, a, b, cloud) ==
    Bind(GateAnd(s, a, cloud), LAMBDA s_and_a :
    Bind(GateNot(s, cloud), LAMBDA not_s :
    Bind(GateAnd(not_s, b, cloud), LAMBDA not_s_and_b :
        GateOr(s_and_a, not_s_and_b, cloud))))

EncodeBoolSwapped(value, tsk, a, error) ==
    TlweEncrypt(IF value THEN Frac(1, 8) ELSE Frac(5, 8), tsk.tlwe_key, a, error)

EncodeBool(value, tsk, a, error) ==
    TlweEncrypt(IF value THEN Frac(5, 8) ELSE Frac(1, 8), tsk.tlwe_key, a, error)

DecodeBool(sample, tsk) == TlweDecryptBinary(sample, tsk.tlwe_key)

\* rnds[i] is the randomness (mask a, error e) drawn for bit i.
EncodeBits(bits, tsk, rnds) ==
    [i \in 1 .. Len(bits) |-> EncodeBool(bits[i], tsk, rnds[i].a, rnds[i].e)]

DecodeBitsReversed(samples, tsk) ==
    [i \in 1 .. Len(samples) |-> DecodeBool(samples[Len(samples) + 1 - i], tsk)]

DecodeBits(samples, tsk) ==
    [i \in 1 .. Len(samples) |-> DecodeBool(samples[i], tsk)]

(***************************************************************************)
(* operations.rs                                                           *)
(***************************************************************************)
DefaultN == 630

\* TlweParams::default(); its stddev, 2e-9, is one torus unit here.
DefaultTlweParams == [n |-> DefaultN, stddev |-> 1]

\* TfheSecretKey::generate(Default::default()): a fresh key of dimension 630
\* (all coefficients equal to c), and the mask and error of one encryption
\* under it (all mask coordinates equal to m).
DefaultTfheParams ==
    [tlwe_params |-> DefaultTlweParams,
     tgsw_params |-> [l |-> 3, bg_bit |-> 10, tlwe_params |-> DefaultTlweParams],
     n |-> DefaultN, N |-> LutLen, k |-> 1]

FreshKeys ==
    {[tlwe_key |-> [coeffs |-> [i \in 1 .. DefaultN |-> c],
                    params |-> DefaultTlweParams],
      params |-> DefaultTfheParams] : c \in {0, 1}}

FreshMask(m) == [i \in 1 .. DefaultN |-> m]

\* (sum, carry), or the panic of the first gate that panics.
FullAdder(a, b, cin, cloud) ==
    Bind(GateXor(a, b, cloud), LAMBDA ab_xor :
    Bind(GateXor(ab_xor, cin, cloud), LAMBDA sum :
    Bind(GateAnd(a, b, cloud), LAMBDA ab_and :
    Bind(GateAnd(cin, ab_xor, cloud), LAMBDA cin_and_xor :
    Bind(GateOr(ab_and, cin_and_xor, cloud), LAMBDA carry :
        IF IsPanic(ab_xor) THEN ab_xor
        ELSE IF IsPanic(sum) THEN sum
        ELSE IF IsPanic(ab_and) THEN ab_and
        ELSE IF IsPanic(cin_and_xor) THEN cin_and_xor
        ELSE IF IsPanic(carry) THEN carry
        ELSE [sum |-> sum, carry |-> carry])))))

\* The state of the loop of add_n_bit after i iterations.
RECURSIVE AddLoop(_, _, _, _, _)
AddLoop(a, b, carry0, cloud, i) ==
    IF i = 0 THEN [result |-> << >>, carry |-> carry0]
    ELSE Bind(AddLoop(a, b, carry0, cloud, i - 1), LAMBDA before :
             IF IsPanic(before) THEN before
             ELSE Bind(FullAdder(a[i], b[i], before.carry, cloud), LAMBDA step :
                      IF IsPanic(step) THEN step
                      ELSE [result |-> Append(before.result, step.sum),
                            carry |-> step.carry]))

\* carry0 is encode_bool(false, fresh key).  The returned vector is the field
\* samples of the result.
AddNBit(a, b, cloud, carry0) ==
    IF Len(a) # Len(b) THEN PanicAt("add_n_bit assert_eq")
    ELSE Bind(AddLoop(a, b, carry0, cloud, Len(a)), LAMBDA final :
             IF IsPanic(final) THEN final
             ELSE [samples |-> Append(final.result, final.carry)])

\* The padding loop: zero is pushed while result.len() < n.
PadWithZero(result, zero, n) ==
    IF Len(result) < n
    THEN result \o [i \in 1 .. (n - Len(result)) |-> zero]
    ELSE result

\* n - shift on usize underflows for shift > n: a panic where overflow is
\* checked; otherwise the wrapped difference 2^WordBits - (shift - n), which
\* is larger than n, so that its minimum with n is n.
LeftShift(a, shift, zero) ==
    LET n == Len(a)
        zeros == [i \in 1 .. Min(shift, n) |-> zero]
        copied == SubSeq(a, 1, IF shift <= n THEN n - shift ELSE n)
    IN  OverflowOutcomes(shift > n, "left_shift subtract",
                         [samples |-> PadWithZero(zeros \o copied, zero, n)])

\* The range shift..n is empty for shift >= n.
RightShift(a, shift, zero) ==
    [samples |-> PadWithZero(SubSeq(a, shift + 1, Len(a)), zero, Len(a))]

(***************************************************************************)
(* Operations of the TFHE layer.  sk holds a TfheSecretKey, ck the cloud   *)
(* key derived from it; a new secret key discards the old cloud key.       *)
(***************************************************************************)
MaxBits == 2

HasTfheKey == "tlwe_key" \in DOMAIN sk

HasCloudKey == "bootstrapping_key" \in DOMAIN ck

TfheGenerate(params) ==
    /\ sk' \in TfheSecretKeys(params)
    /\ ck' = NoKey
    /\ call' = [op |-> "tfhe_generate"]
    /\ ret' = NoValue

CloudGenerate(rnd) ==
    /\ ck' = TfheCloudKeyGenerate(sk, rnd)
    /\ call' = [op |-> "cloud_generate"]
    /\ ret' = NoValue
    /\ UNCHANGED sk

EncodeBoolCall(value, a, error) ==
    /\ call' = [op |-> "encode_bool", value |-> value, error |-> error]
    /\ ret' = EncodeBool(value, sk, a, error)
    /\ UNCHANGED <<sk, ck>>

BitSeqs(len) == [1 .. len -> BOOLEAN]

\* The randomness of bit i: the masks alternate between a and OtherMask(a),
\* the errors between e and -e.
BitRandomness(a, e, len) ==
    [i \in 1 .. len |->
        IF i % 2 = 1 THEN [a |-> a, e |-> e] ELSE [a |-> OtherMask(a), e |-> 0 - e]]

EncodeBitsCall(bits, a, error) ==
    /\ call' = [op |-> "encode_bits", bits |-> bits, error |-> error]
    /\ ret' = [samples |-> EncodeBits(bits, sk, BitRandomness(a, error, Len(bits)))]
    /\ UNCHANGED <<sk, ck>>

Gates == {"nand", "and", "or", "xor", "not", "mux"}

Arity(gate) ==
    CASE gate = "not" -> 1
      [] gate = "mux" -> 3
      [] OTHER -> 2

ApplyGate(gate, in, cloud) ==
    CASE gate = "nand" -> GateNand(in[1], in[2], cloud)
      [] gate = "and" -> GateAnd(in[1], in[2], cloud)
      [] gate = "or" -> GateOr(in[1], in[2], cloud)
      [] gate = "xor" -> GateXor(in[1], in[2], cloud)
      [] gate = "not" -> GateNot(in[1], cloud)
      [] gate = "mux" -> GateMux(in[1], in[2], in[3], cloud)

\* The sample a bootstrapped gate builds from its inputs before it calls
\* programmable_bootstrap.
PreCombine(gate, in) ==
    CASE gate = "nand" -> NandPreCombine(in[1], in[2])
      [] gate = "xor" -> XorPreCombine(in[1], in[2])
      [] OTHER -> NoValue

\* The inputs are encrypted with encode_bool, the gate is applied with ck;
\* pre records the pre-combined sample of nand and xor.
GateCall(gate, values, a, error) ==
    LET in == EncodeBits(values, sk, BitRandomness(a, error, Len(values)))
    IN  /\ call' = [op |-> "gate", gate |-> gate, values |-> values, error |-> error,
                    pre |-> PreCombine(gate, in)]
        /\ ret' = ApplyGate(gate, in, ck)
        /\ UNCHANGED <<sk, ck>>

Luts == {"nand", "xor"}

LutOf(name) == IF name = "nand" THEN NandLut ELSE XorLut

\* Two inputs under sk, bootstrapped with the same table and key.
BootstrapCall(name, m1, m2, a, error) ==
    LET in1 == TlweEncrypt(m1, sk.tlwe_key, a, error)
        in2 == TlweEncrypt(m2, sk.tlwe_key, OtherMask(a), 0 - error)
        bk == ck.bootstrapping_key
    IN  /\ call' = [op |-> "bootstrap", lut |-> name, in1 |-> in1, in2 |-> in2]
        /\ ret' = [out1 |-> ProgrammableBootstrap(in1, LutOf(name), bk),
                   out2 |-> ProgrammableBootstrap(in2, LutOf(name), bk)]
        /\ UNCHANGED <<sk, ck>>

\* a and b are encode_bits of the bit vectors (LSB first); the carry-in is
\* encrypted under a fresh default key inside add_n_bit.
AddNBitCall(abits, bbits, a, error, fresh, m) ==
    LET ea == EncodeBits(abits, sk, BitRandomness(a, error, Len(abits)))
        eb == EncodeBits(bbits, sk, BitRandomness(OtherMask(a), error, Len(bbits)))
        carry0 == EncodeBool(FALSE, fresh, FreshMask(m), error)
    IN  /\ call' = [op |-> "add_n_bit", a |-> abits, b |-> bbits]
        /\ ret' = AddNBit(ea, eb, ck, carry0)
        /\ UNCHANGED <<sk, ck>>

\* Masks whose coordinates are all equal.
UniformMasks(n) == {[i \in 1 .. n |-> m] : m \in MaskValues}

NextTfheGenerate ==
    /\ Idle
    /\ \E params \in TfheParamsSet : TfheGenerate(params)

NextCloudGenerate ==
    /\ Idle
    /\ HasTfheKey
    /\ \E mask \in UniformMasks(sk.params.tlwe_params.n),
          err \in GaussianNoise(sk.params.tlwe_params.stddev) :
            CloudGenerate([mask |-> mask, err |-> err])

NextEncodeBool ==
    /\ Idle
    /\ HasTfheKey
    /\ \E value \in BOOLEAN, a \in MaskVecs(sk.params.tlwe_params.n),
          error \in GaussianNoise(sk.params.tlwe_params.stddev) :
            EncodeBoolCall(value, a, error)

NextEncodeBits ==
    /\ Idle
    /\ HasTfheKey
    /\ \E len \in 0 .. (MaxBits + 1) :
          \E bits \in BitSeqs(len), a \in MaskVecs(sk.params.tlwe_params.n),
             error \in GaussianNoise(sk.params.tlwe_params.stddev) :
               EncodeBitsCall(bits, a, error)

NextGate ==
    /\ Idle
    /\ HasTfheKey
    /\ HasCloudKey
    /\ \E gate \in Gates :
          \E values \in BitSeqs(Arity(gate)),
             a \in UniformMasks(sk.params.tlwe_params.n),
             error \in GaussianNoise(sk.params.tlwe_params.stddev) :
               GateCall(gate, values, a, error)

BootstrapMessages == {Frac(1, 8), Frac(3, 8)}

NextBootstrap ==
    /\ Idle
    /\ HasTfheKey
    /\ HasCloudKey
    /\ \E name \in Luts, m1, m2 \in BootstrapMessages,
          a \in UniformMasks(sk.params.tlwe_params.n),
          error \in GaussianNoise(sk.params.tlwe_params.stddev) :
            BootstrapCall(name, m1, m2, a, error)

NextAddNBit ==
    /\ Idle
    /\ HasTfheKey
    /\ HasCloudKey
    /\ \E len \in 0 .. MaxBits :
          \E abits, bbits \in BitSeqs(len),
             a \in UniformMasks(sk.params.tlwe_params.n),
             fresh \in FreshKeys :
               AddNBitCall(abits, bbits, a, 0, fresh, 1)

\* encode_bool(v1, sk).add(&encode_bool(v2, sk)) and the same with sub.
EncodedCombineCall(kind, v1, v2, a, e1, e2) ==
    LET x == EncodeBool(v1, sk, a, e1)
        y == EncodeBool(v2, sk, OtherMask(a), e2)
    IN  /\ call' = [op |-> kind, v1 |-> v1, v2 |-> v2, e1 |-> e1, e2 |-> e2]
        /\ ret' = IF kind = "encoded_add" THEN TlweAdd(x, y) ELSE TlweSub(x, y)
        /\ UNCHANGED <<sk, ck>>

NextEncodedCombine ==
    /\ Idle
    /\ HasTfheKey
    /\ \E kind \in {"encoded_add", "encoded_sub"}, v1, v2 \in BOOLEAN,
          a \in MaskVecs(sk.params.tlwe_params.n),
          e1, e2 \in GaussianNoise(sk.params.tlwe_params.stddev) :
            EncodedCombineCall(kind, v1, v2, a, e1, e2)

NextEncoder ==
    \/ NextTfheGenerate
    \/ NextEncodeBool
    \/ NextEncodeBits
    \/ NextEncodedCombine
    \/ Return

SpecEncoder == Init /\ [][NextEncoder]_vars

NextTfhe ==
    \/ NextTfheGenerate
    \/ NextCloudGenerate
    \/ NextGate
    \/ NextBootstrap
    \/ NextAddNBit
    \/ Return

SpecTfhe == Init /\ [][NextTfhe]_vars

NextBootstrapOnly == NextTfheGenerate \/ NextCloudGenerate \/ NextBootstrap \/ Return

SpecBootstrap == Init /\ [][NextBootstrapOnly]_vars

\* a = encode_bits(bits, sk); zero is encode_bool(false, fresh) for the key
\* the shift generates from the default parameters.
ShiftCall(dir, bits, shift, a, error, fresh, m) ==
    LET ea == EncodeBits(bits, sk, BitRandomness(a, error, Len(bits)))
        zero == EncodeBool(FALSE, fresh, FreshMask(m), error)
    IN  /\ call' = [op |-> dir, a |-> ea, bits |-> bits, shift |-> shift,
                    fresh |-> fresh]
        /\ ret' \in IF dir = "left_shift" THEN LeftShift(ea, shift, zero)
                     ELSE {RightShift(ea, shift, zero)}
        /\ UNCHANGED <<sk, ck>>

NextLeftShift ==
    /\ Idle
    /\ HasTfheKey
    /\ \E len \in 0 .. MaxBits, shift \in 0 .. (MaxBits + 1) :
          \E bits \in BitSeqs(len), a \in UniformMasks(sk.params.tlwe_params.n),
             error \in GaussianNoise(sk.params.tlwe_params.stddev),
             fresh \in FreshKeys :
               ShiftCall("left_shift", bits, shift, a, error, fresh, 1)

NextRightShift ==
    /\ Idle
    /\ HasTfheKey
    /\ \E len \in 0 .. MaxBits, shift \in 0 .. (MaxBits + 1) :
          \E bits \in BitSeqs(len), a \in UniformMasks(sk.params.tlwe_params.n),
             error \in GaussianNoise(sk.params.tlwe_params.stddev),
             fresh \in FreshKeys :
               ShiftCall("right_shift", bits, shift, a, error, fresh, 1)

NextShift == NextTfheGenerate \/ NextLeftShift \/ NextRightShift \/ Return

SpecShift == Init /\ [][NextShift]_vars

(***************************************************************************)
(* Parameter structs.  LweParams, TlweParams and TgswParams are structs    *)
(* with public fields and no constructor: a caller builds them with a      *)
(* struct literal from any values of the field types.                      *)
(***************************************************************************)
AnyStddev == -1 .. MaxNoise

AnyTlweParams == [n : 0 .. MaxN, stddev : AnyStddev]

AnyLweParams == [n : 0 .. MaxN, q : LweModuli, stddev : AnyStddev]

AnyTgswParams ==
    [l : 0 .. MaxL, bg_bit : {0, 1, WorkBits, WorkBits + 1},
     tlwe_params : {[n |-> 0, stddev |-> 0], [n |-> 1, stddev |-> 1]}]

\* LweSecretKey::generate_binary.
LweGenerateBinary(params) ==
    /\ sk' \in BinaryKeys(params)
    /\ call' = [op |-> "lwe_generate_binary"]
    /\ ret' = NoValue
    /\ UNCHANGED ck

\* Normal::new(0.0, stddev).unwrap() of gaussian_noise: a zero deviation is
\* accepted; a negative one is an error in the releases of rand_distr that
\* require stddev >= 0 and is accepted by the others.
NoiseOutcomes(stddev) ==
    IF stddev < 0
    THEN {PanicAt("Normal::new unwrap")} \cup {[error |-> e] : e \in GaussianNoise(stddev)}
    ELSE {[error |-> e] : e \in GaussianNoise(stddev)}

\* TlweSample::encrypt under the key in sk, whatever its parameters.
EncryptAny(message, a, noise) ==
    /\ call' = [op |-> "encrypt", message |-> message, noise |-> noise]
    /\ ret' = IF IsPanic(noise) THEN noise
              ELSE TlweEncrypt(message, sk, a, noise.error)
    /\ UNCHANGED <<sk, ck>>

NextAnyKeygen ==
    /\ Idle
    /\ \E params \in AnyTlweParams :
          GenerateBinary(params) \/ GenerateTernary(params)

NextAnyLweKeygen ==
    /\ Idle
    /\ \E params \in AnyLweParams : LweGenerateBinary(params)

NextAnyEncrypt ==
    /\ Idle
    /\ HasKey
    /\ "q" \notin DOMAIN sk.params
    /\ \E message \in OperandMessages, a \in MaskVecs(sk.params.n),
          noise \in NoiseOutcomes(sk.params.stddev) :
            EncryptAny(message, a, noise)

NextAnyDecompose ==
    /\ Idle
    /\ \E value \in {0, Frac(1, 4) + 1}, params \in AnyTgswParams :
          Decompose(value, params)

NextParams ==
    \/ NextAnyKeygen
    \/ NextAnyLweKeygen
    \/ NextAnyEncrypt
    \/ NextAnyDecompose
    \/ Return

SpecParams == Init /\ [][NextParams]_vars

(***************************************************************************)
(* Operations of the LWE layer.  sk holds an LweSecretKey.                 *)
(***************************************************************************)
LweParamsSet == [n : 1 .. MaxN, q : LweModuli, stddev : 1 .. MaxNoise]

\* Values of rng.random::<u64>() % q.
LweMaskVecs(n, q) == [1 .. n -> {1, q - 1}]

\* LweSecretKey::generate_ternary.
LweGenerateTernary(params) ==
    /\ sk' \in TernaryKeys(params)
    /\ call' = [op |-> "lwe_generate_ternary"]
    /\ ret' = NoValue
    /\ UNCHANGED ck

\* error is gaussian_noise(stddev) as i64.
LweEncryptCall(message, a, error) ==
    /\ call' = [op |-> "lwe_encrypt", message |-> message, error |-> error]
    /\ ret' = LweEncrypt(message, sk, a, error)
    /\ UNCHANGED <<sk, ck>>

\* encrypt(m1, sk).add(&encrypt(m2, sk)).
LweAddEncrypted(m1, a1, e1, m2, a2, e2) ==
    LET ct1 == LweEncrypt(m1, sk, a1, e1)
        ct2 == LweEncrypt(m2, sk, a2, e2)
    IN  /\ call' = [op |-> "lwe_add_encrypted", ct1 |-> ct1, ct2 |-> ct2,
                    m1 |-> m1, e1 |-> e1, m2 |-> m2, e2 |-> e2]
        /\ ret' \in OverflowOutcomes(LweAddOverflows(ct1, ct2),
                                     "attempt to add with overflow",
                                     LweAdd(ct1, ct2))
        /\ UNCHANGED <<sk, ck>>

\* encrypt(message, sk).scalar_mul(scalar).
LweScalarMulCall(message, a, error, scalar) ==
    LET ct == LweEncrypt(message, sk, a, error)
    IN  /\ call' = [op |-> "lwe_scalar_mul", ct |-> ct, message |-> message,
                    error |-> error, scalar |-> scalar]
        /\ ret' \in OverflowOutcomes(LweScalarMulOverflows(ct, scalar),
                                     "attempt to multiply with overflow",
                                     LweScalarMul(ct, scalar))
        /\ UNCHANGED <<sk, ck>>

NextLweKeygen ==
    /\ Idle
    /\ \E params \in LweParamsSet :
          LweGenerateBinary(params) \/ LweGenerateTernary(params)

NextLweEncrypt ==
    /\ Idle
    /\ HasKey /\ "q" \in DOMAIN sk.params
    /\ \E message \in {0, 5, sk.params.q - 1},
          a \in LweMaskVecs(sk.params.n, sk.params.q),
          error \in GaussianNoise(sk.params.stddev) :
            LweEncryptCall(message, a, error)

NextLweAddEncrypted ==
    /\ Idle
    /\ HasKey /\ "q" \in DOMAIN sk.params
    /\ \E m1 \in {0, sk.params.q - 1}, m2 \in {0, 5},
          a1 \in LweMaskVecs(sk.params.n, sk.params.q),
          e1, e2 \in GaussianNoise(sk.params.stddev) :
            LweAddEncrypted(m1, a1, e1, m2, [i \in 1 .. Len(a1) |-> sk.params.q - a1[i]], e2)

NextLweScalarMul ==
    /\ Idle
    /\ HasKey /\ "q" \in DOMAIN sk.params
    /\ \E message \in {0, 5, sk.params.q - 1},
          a \in LweMaskVecs(sk.params.n, sk.params.q),
          error \in GaussianNoise(sk.params.stddev),
          scalar \in 0 .. (MaxScalar + 1) :
            LweScalarMulCall(message, a, error, scalar)

NextLwe ==
    \/ NextLweKeygen
    \/ NextLweEncrypt
    \/ NextLweAddEncrypted
    \/ NextLweScalarMul
    \/ Return

SpecLwe == Init /\ [][NextLwe]_vars

(***************************************************************************)
(* Operations of the torus.  The arguments of Torus::new are reals, in     *)
(* units of 1 / TorusQ, inside and outside [0, 1).                         *)
(***************************************************************************)
TorusReals == (0 - TorusQ - 2) .. (TorusQ + (TorusQ \div 2))

TorusOperands ==
    {0 - TorusQ - 1, 0 - (3 * (TorusQ \div 8)), 0, TorusQ \div 2, TorusQ - 1,
     TorusQ + (TorusQ \div 2)}

TorusNewCall(x) ==
    /\ call' = [op |-> "torus_new", x |-> x]
    /\ ret' = [value |-> TorusNew(x)]
    /\ UNCHANGED <<sk, ck>>

\* Torus::new(x).add(&Torus::new(y)).
TorusAddCall(x, y) ==
    /\ call' = [op |-> "torus_add", x |-> x, y |-> y]
    /\ ret' = [value |-> TorusAdd(TorusNew(x), TorusNew(y))]
    /\ UNCHANGED <<sk, ck>>

\* Torus::new(x).sub(&Torus::new(y)).
TorusSubCall(x, y) ==
    /\ call' = [op |-> "torus_sub", x |-> x, y |-> y]
    /\ ret' = [value |-> TorusSub(TorusNew(x), TorusNew(y))]
    /\ UNCHANGED <<sk, ck>>

\* Torus::new(x).add(&Torus::new(y)).sub(&Torus::new(y)).
TorusAddSubCall(x, y) ==
    /\ call' = [op |-> "torus_add_sub", x |-> x, y |-> y]
    /\ ret' = [value |-> TorusSub(TorusAdd(TorusNew(x), TorusNew(y)), TorusNew(y))]
    /\ UNCHANGED <<sk, ck>>

NextTorusNew ==
    /\ Idle
    /\ \E x \in TorusReals : TorusNewCall(x)

NextTorusAdd ==
    /\ Idle
    /\ \E x \in TorusReals, y \in TorusOperands : TorusAddCall(x, y)

NextTorusSub ==
    /\ Idle
    /\ \E x \in TorusReals, y \in TorusOperands : TorusSubCall(x, y)

NextTorusAddSub ==
    /\ Idle
    /\ \E x \in TorusReals, y \in TorusOperands : TorusAddSubCall(x, y)

NextTorus == NextTorusNew \/ NextTorusAdd \/ NextTorusSub \/ NextTorusAddSub \/ Return

SpecTorus == Init /\ [][NextTorus]_vars

(***************************************************************************)
(* C4: encoder round trip.  decode_bool(encode_bool(v, sk), sk) = v when   *)
(* the error is below the decision margin 1/8, and                         *)
(* decode_bits(encode_bits(bits, sk), sk) = bits, same length and order.   *)
(***************************************************************************)
C4_EncoderRoundTrip ==
    /\ (call.op = "encode_bool" /\ 8 * Abs(call.error) < TorusQ)
          => DecodeBool(ret, sk) = call.value
    /\ (call.op = "encode_bits" /\ 8 * Abs(call.error) < TorusQ)
          => /\ Len(ret.samples) = Len(call.bits)
             /\ DecodeBits(ret.samples, sk) = call.bits

C4_Witness ==
    /\ call.op = "encode_bits"
    /\ Len(call.bits) = MaxBits + 1
    /\ call.bits[1] = TRUE
    /\ call.bits[2] = FALSE
    /\ call.error # 0
    /\ \E i \in 1 .. Len(sk.tlwe_key.coeffs) : sk.tlwe_key.coeffs[i] = 1

(***************************************************************************)
(* C1 (as claimed): gate truth tables.  For every gate and every           *)
(* assignment of its Boolean inputs, encrypting the inputs with            *)
(* encode_bool, applying the gate with the cloud key of the same secret    *)
(* key and decoding with decode_bool gives the truth-table value.          *)
(***************************************************************************)
GateTruth(gate, v) ==
    CASE gate = "nand" -> ~(v[1] /\ v[2])
      [] gate = "and" -> v[1] /\ v[2]
      [] gate = "or" -> v[1] \/ v[2]
      [] gate = "xor" -> v[1] # v[2]
      [] gate = "not" -> ~v[1]
      [] gate = "mux" -> IF v[1] THEN v[2] ELSE v[3]

C1_GateTruthTables ==
    call.op = "gate" =>
        /\ ~IsPanic(ret)
        /\ DecodeBool(ret, sk) = GateTruth(call.gate, call.values)

(***************************************************************************)
(* C2 (as claimed): programmable_bootstrap(input, lut, bk) returns a       *)
(* sample whose phase is, up to the noise of the n external products, the  *)
(* table value lut[floor(phase(input) * 2N)]; two inputs that select       *)
(* entries with different values give outputs with different phases.       *)
(* Stated for inputs of phase below 1/2, which select an index below N.    *)
(***************************************************************************)
LutIndex(phase) == (phase * 2 * LutLen) \div TorusQ

C2_BootstrapEvaluatesLut ==
    call.op = "bootstrap" =>
        LET p1 == TlweDecryptPhase(call.in1, sk.tlwe_key)
            p2 == TlweDecryptPhase(call.in2, sk.tlwe_key)
            lut == LutOf(call.lut)
        IN  (2 * p1 < TorusQ /\ 2 * p2 < TorusQ /\ lut[LutIndex(p1)] # lut[LutIndex(p2)])
                => TlweDecryptPhase(ret.out1, sk.tlwe_key)
                     # TlweDecryptPhase(ret.out2, sk.tlwe_key)

(***************************************************************************)
(* C8 (as claimed): ripple-carry addition.  For two n-bit inputs (LSB      *)
(* first) encrypted under the caller's key, add_n_bit returns without a    *)
(* panic n + 1 samples that decode under that key to the bits of the sum.  *)
(***************************************************************************)
RECURSIVE BitsValue(_, _)
BitsValue(bits, len) ==
    IF len = 0 THEN 0
    ELSE 2 * BitsValue(SubSeq(bits, 2, Len(bits)), len - 1)
         + (IF bits[1] THEN 1 ELSE 0)

RECURSIVE ValueBits(_, _)
ValueBits(value, len) ==
    IF len = 0 THEN << >>
    ELSE <<value % 2 = 1>> \o ValueBits(value \div 2, len - 1)

C8_RippleCarrySum ==
    call.op = "add_n_bit" =>
        /\ ~IsPanic(ret)
        /\ Len(ret.samples) = Len(call.a) + 1
        /\ DecodeBits(ret.samples, sk)
             = ValueBits(BitsValue(call.a, Len(call.a)) + BitsValue(call.b, Len(call.b)),
                         Len(call.a) + 1)

(***************************************************************************)
(* C10 (as claimed): invalid parameters are rejected at construction.  No  *)
(* LweParams, TlweParams or TgswParams value with stddev <= 0, n = 0,      *)
(* l = 0 or bg_bit outside (0, W) reaches key generation, encryption or    *)
(* decomposition.  W is WorkBits here.                                     *)
(***************************************************************************)
ValidTlweParams(params) == params.n > 0 /\ params.stddev > 0

ValidTgswParams(params) ==
    /\ params.l > 0
    /\ params.bg_bit > 0
    /\ params.bg_bit < WorkBits
    /\ ValidTlweParams(params.tlwe_params)

C10_InvalidParamsRejected ==
    /\ call.op \in {"generate_binary", "generate_ternary", "lwe_generate_binary",
                    "encrypt"}
          => ValidTlweParams(sk.params)
    /\ call.op = "decompose" => ValidTgswParams(call.params)

(***************************************************************************)
(* C7 (as claimed): gadget decomposition round trip.  The digits           *)
(* d_0 .. d_{l-1} of decompose(v, params), recomposed with the gadget      *)
(* weights Bg^-(j+1) that TgswSample::encrypt uses, are within Bg^-l of v  *)
(* on the torus.                                                           *)
(***************************************************************************)
RECURSIVE Recompose(_, _, _)
Recompose(digits, params, l) ==
    IF l = 0 THEN 0
    ELSE Recompose(digits, params, l - 1) + digits[l] * HValue(l - 1, params)

C7_DecomposeRoundTrip ==
    call.op = "decompose" =>
        TorusDist(TorusNew(Recompose(ret.digits, call.params, call.params.l)),
                  call.value)
            < TorusQ \div (Bg(call.params) ^ call.params.l)

(***************************************************************************)
(* C3 (as claimed): CMux selection.  For a selector encrypting s in {0,1}  *)
(* under a binary key and c0, c1 under the same key, the phase of          *)
(* selector.cmux(c0, c1) is the phase of c_s up to the noise of the        *)
(* external product: the digits (at most Bg/2 each) times the errors of    *)
(* the 2l rows, plus the rounding of the decomposition, Bg^-l.             *)
(***************************************************************************)
ExternalProductNoise(selector, err) ==
    2 * selector.l * (Bg(selector.params) \div 2) * Abs(err)
    + TorusQ \div (Bg(selector.params) ^ selector.l)

C3_CmuxSelects ==
    call.op = "cmux" =>
        /\ ~IsPanic(ret)
        /\ TorusDist(TlweDecryptPhase(ret, sk),
                     TlweDecryptPhase(IF call.s = 1 THEN call.c1 ELSE call.c0, sk))
             <= ExternalProductNoise(call.selector, call.err)

(***************************************************************************)
(* C9 (as claimed): a two-operand call whose operands differ in dimension  *)
(* or modulus fails at its entry point: LweCiphertext::add,                *)
(* TlweSample::add and sub by their assert_eq, external_product and cmux   *)
(* before anything is computed.  It never returns a sample and never       *)
(* fails later, inside the computation.                                    *)
(***************************************************************************)
OperandsMismatch ==
    CASE call.op \in {"tlwe_add", "tlwe_sub"} ->
            call.x.params.n # call.y.params.n
      [] call.op = "lwe_add" ->
            call.x.params.n # call.y.params.n \/ call.x.params.q # call.y.params.q
      [] call.op = "external_product" ->
            call.self.params.tlwe_params.n # call.tlwe.params.n
      [] call.op = "cmux_call" ->
            \/ call.c0.params.n # call.c1.params.n
            \/ call.self.params.tlwe_params.n # call.c0.params.n
      [] OTHER -> FALSE

EntryPanics ==
    CASE call.op = "tlwe_add" -> {"TlweSample::add assert_eq"}
      [] call.op = "tlwe_sub" -> {"TlweSample::sub assert_eq"}
      [] call.op = "lwe_add" -> {"LweCiphertext::add assert_eq"}
      [] call.op = "cmux_call" -> {"TlweSample::sub assert_eq"}
      [] OTHER -> {}

C9_MismatchFailsAtEntry ==
    OperandsMismatch => IsPanic(ret) /\ ret.panic \in EntryPanics

C12_AddDecryptsToSum ==
    call.op = "lwe_add_encrypted" =>
        /\ ~IsPanic(ret)
        /\ ~LweAddOverflows(call.ct1, call.ct2)
        /\ LweDecrypt(ret, sk)
             = (call.m1 + call.m2 + call.e1 + call.e2) % sk.params.q

(***************************************************************************)
(* C15 (as claimed): every ciphertext returned by encrypt, add or          *)
(* scalar_mul has each a_i and b in [0, q), b of encrypt is congruent to   *)
(* <a, s> + m + e modulo q, and no operation overflows its 64-bit type.    *)
(***************************************************************************)
LweReduced(ct) ==
    /\ \A i \in 1 .. Len(ct.a) : ct.a[i] \in 0 .. (ct.params.q - 1)
    /\ ct.b \in 0 .. (ct.params.q - 1)

C15_ComponentsReduced ==
    /\ call.op \in {"lwe_encrypt", "lwe_add_encrypted", "lwe_scalar_mul"}
          => ~IsPanic(ret) /\ LweReduced(ret)
    /\ call.op = "lwe_encrypt"
          => (ret.b - LweInnerProduct(ret.a, sk.coeffs, sk.params.q, sk.params.n)
              - call.message - call.error) % sk.params.q = 0

(***************************************************************************)
(* C13: torus wrap, in fixed-point arithmetic.  Torus::new(x) lies in      *)
(* [0, 1); Torus::new(x + y) = Torus::new(x).add(Torus::new(y));           *)
(* (x.add(y)).sub(y) = x; sub wraps a negative difference, so that         *)
(* new(3/2) = 1/2, new(-3/8) = 5/8 and 1/4 - 1/2 = 3/4.                    *)
(***************************************************************************)
C13_TorusWrap ==
    /\ call.op \in {"torus_new", "torus_add", "torus_sub", "torus_add_sub"}
          => ret.value \in 0 .. (TorusQ - 1)
    /\ call.op = "torus_new"
          => /\ (ret.value - call.x) % TorusQ = 0
             /\ call.x = TorusQ + (TorusQ \div 2) => ret.value = TorusQ \div 2
             /\ call.x = 0 - (3 * (TorusQ \div 8)) => ret.value = 5 * (TorusQ \div 8)
    /\ call.op = "torus_add" => ret.value = TorusNew(call.x + call.y)
    /\ call.op = "torus_sub" => ret.value = TorusNew(call.x - call.y)
    /\ call.op = "torus_add_sub" => ret.value = TorusNew(call.x)

C13_Witness ==
    /\ call.op = "torus_sub"
    /\ call.x = TorusQ \div 4
    /\ call.y = TorusQ \div 2
    /\ ret.value = 3 * (TorusQ \div 4)

(***************************************************************************)
(* C14 (as claimed): gate-layer bit encoding.  encode_bool(false, sk)      *)
(* encrypts -1/8 (= 7/8), encode_bool(true, sk) encrypts 1/8, and          *)
(* decode_bool is true exactly when the phase lies in (0, 1/2).            *)
(***************************************************************************)
C14_GateLayerEncoding ==
    call.op = "encode_bool" =>
        LET phase == TlweDecryptPhase(ret, sk.tlwe_key)
        IN  /\ phase = TorusNew((IF call.value THEN Frac(1, 8) ELSE Frac(7, 8))
                                + call.error)
            /\ DecodeBool(ret, sk) <=> (phase > 0 /\ 2 * phase < TorusQ)

(***************************************************************************)
(* C19 (as claimed): with encode_bool under one key and negligible noise,  *)
(* the sum of two encryptions of true has phase greater than 1/2, and an   *)
(* encryption of true minus an encryption of false has phase strictly      *)
(* between 1/4 and 3/4.  Stated for noise-free encryptions.                *)
(***************************************************************************)
C19_EncodedSumAndDifference ==
    /\ (call.op = "encoded_add" /\ call.v1 /\ call.v2 /\ call.e1 = 0 /\ call.e2 = 0)
          => ~IsPanic(ret) /\ 2 * TlweDecryptPhase(ret, sk.tlwe_key) > TorusQ
    /\ (call.op = "encoded_sub" /\ call.v1 /\ ~call.v2 /\ call.e1 = 0 /\ call.e2 = 0)
          => /\ ~IsPanic(ret)
             /\ InOpenInterval(TlweDecryptPhase(ret, sk.tlwe_key),
                               Frac(1, 4), Frac(3, 4))

(***************************************************************************)
(* C16 (as claimed): pre-combination separation.  For nand and xor with    *)
(* noise-free encode_bool inputs, the pre-combined sample of the call and  *)
(* the pre-combined sample of any input assignment with a different gate   *)
(* output have phases at least 1/4 apart on the torus.                     *)
(***************************************************************************)
PreCombinedPhase(gate, values, a) ==
    TlweDecryptPhase(PreCombine(gate, EncodeBits(values, sk, BitRandomness(a, 0, 2))),
                     sk.tlwe_key)

C16_PreCombinationSeparated ==
    (call.op = "gate" /\ call.gate \in {"nand", "xor"} /\ call.error = 0) =>
        \A w \in BitSeqs(2), a \in UniformMasks(sk.params.tlwe_params.n) :
            GateTruth(call.gate, w) # GateTruth(call.gate, call.values)
                => 4 * TorusDist(TlweDecryptPhase(call.pre, sk.tlwe_key),
                                 PreCombinedPhase(call.gate, w, a)) >= TorusQ

(***************************************************************************)
(* C17: the result of programmable_bootstrap does not depend on its input. *)
(* For one lookup table and one bootstrapping key, two inputs with the     *)
(* same params and any a and b give identical outputs.                     *)
(***************************************************************************)
C17_BootstrapIgnoresInput ==
    call.op = "bootstrap" => ret.out1 = ret.out2

C17_Witness ==
    /\ call.op = "bootstrap"
    /\ call.in1.params = call.in2.params
    /\ call.in1.a # call.in2.a
    /\ call.in1.b # call.in2.b
    /\ LutOf(call.lut)[LutIndex(call.in1.b) % LutLen]
         # LutOf(call.lut)[LutIndex(call.in2.b) % LutLen]
    /\ \E i \in 1 .. Len(sk.tlwe_key.coeffs) : sk.tlwe_key.coeffs[i] = 1


(***************************************************************************)
(* C18: TgswSample::decompose(v, params) returns exactly params.l digits,  *)
(* and every digit d satisfies -Bg/2 <= d < Bg/2 with Bg = 2^bg_bit, for   *)
(* every torus value v in [0, 1).                                          *)
(***************************************************************************)
C18_DigitsCountAndRange ==
    call.op = "decompose" =>
        /\ Len(ret.digits) = call.params.l
        /\ \A j \in 1 .. Len(ret.digits) :
              /\ 0 - (Bg(call.params) \div 2) <= ret.digits[j]
              /\ ret.digits[j] < Bg(call.params) \div 2

\* A two-level decomposition whose digits reach both ends of the range.
C18_Witness ==
    /\ call.op = "decompose"
    /\ call.params.l > 1
    /\ call.params.bg_bit > 1
    /\ call.value > 0
    /\ ret.digits[1] = (Bg(call.params) \div 2) - 1
    /\ ret.digits[2] = 0 - (Bg(call.params) \div 2)


(***************************************************************************)
(* C20: left_shift(a, shift) and right_shift(a, shift) return exactly      *)
(* len(a) ciphertexts for every shift >= 0, including shift > len(a),      *)
(* without arithmetic underflow or panic; for shift <= len(a), left_shift  *)
(* places a[i] at position i + shift and right_shift places a[i + shift]   *)
(* at position i, and the remaining positions hold encryptions of false    *)
(* (they decode to false under the key that encrypted them).               *)
(***************************************************************************)
C20_ShiftLengthAndPlacement ==
    call.op \in {"left_shift", "right_shift"} =>
        /\ ~IsPanic(ret)
        /\ Len(ret.samples) = Len(call.a)
        /\ call.shift <= Len(call.a) =>
              \A i \in 1 .. Len(call.a) :
                  IF call.op = "left_shift"
                  THEN IF i > call.shift
                       THEN ret.samples[i] = call.a[i - call.shift]
                       ELSE ~DecodeBool(ret.samples[i], call.fresh)
                  ELSE IF i + call.shift <= Len(call.a)
                       THEN ret.samples[i] = call.a[i + call.shift]
                       ELSE ~DecodeBool(ret.samples[i], call.fresh)

====
